---- MODULE Spec2Model ----
(***************************************************************************)
(* A model of sage.categories.complex_reflection_groups: the generic       *)
(* ParentMethods / ElementMethods of the category ComplexReflectionGroups, *)
(* run on the doctest group ColoredPermutations(1,3) (the permutations of  *)
(* {1,2,3}).  A state holds one group instance (its configuration and the  *)
(* caches of its cached_method families) and the record of the call that   *)
(* was made last: its arguments, its outcome and the number of group       *)
(* multiplications it performed.  trail holds the elements a word applied  *)
(* one label at a time has visited.                                        *)
(***************************************************************************)
EXTENDS Integers, Sequences, FiniteSets, TLC

VARIABLES G, cache, builds, nextId, pc, call, out, mults, hit, trail

vars == <<G, cache, builds, nextId, pc, call, out, mults, hit, trail>>

\* ColoredPermutations(1,3): the group of the doctests of apply_simple_reflections.
Degree == 3
\* ColoredPermutations(1,4): the group of the doctest of from_word.
WalkDegree == 4
\* The length of the doctest word [1,2,1,2,1,2].
WalkLen == 6
\* Largest number of irreducible components a concrete group supplies.
MaxComponents == 3
\* Longest word handed to from_word / apply_*_reflections.
MaxLen == 3
\* Depth of nested calls after which the interpreter raises
\* "maximum recursion depth exceeded".
RecursionLimit == 6

RECURSIVE simple_reflection(_, _, _, _)
RECURSIVE FamilyItems(_, _, _, _, _, _)
RECURSIVE apply_simple_reflections(_, _, _, _, _, _)
RECURSIVE apply_distinguished_reflections(_, _, _, _, _)
RECURSIVE apply_reflections(_, _, _, _, _)
RECURSIVE prod(_, _, _, _)
RECURSIVE Power(_, _, _)

(***************************************************************************)
(* The group: permutations in one-line notation, p * q = "p, then q".      *)
(***************************************************************************)
PermutationsOf(n) == {p \in [1..n -> 1..n] : \A a, b \in 1..n : p[a] = p[b] => a = b}

ElementsTable == [n \in {Degree, WalkDegree} |-> PermutationsOf(n)]

Elements(n) == ElementsTable[n]

one(g) == [k \in 1..g.n |-> k]

mul(p, q) == [k \in DOMAIN p |-> q[p[k]]]

Transposition(n, a, b) == [k \in 1..n |-> IF k = a THEN b ELSE IF k = b THEN a ELSE k]

NonAdjacent(n) == {q \in (1..n) \X (1..n) : q[2] >= q[1] + 2}

PairRank(n, q) == 1 + Cardinality({r \in NonAdjacent(n) : r[1] < q[1] \/ (r[1] = q[1] /\ r[2] < q[2])})

\* The reflections of the group in index order: the simple ones first.
Transpositions(n) == [k \in 1..(n - 1) |-> Transposition(n, k, k + 1)] \o [k \in 1..Cardinality(NonAdjacent(n)) |-> LET q == CHOOSE r \in NonAdjacent(n) : PairRank(n, r) = k IN Transposition(n, q[1], q[2])]

ReflectionTable == [n \in {Degree, WalkDegree} |-> Transpositions(n)]

ReflectionList(n) == ReflectionTable[n]

Range(s) == {s[k] : k \in DOMAIN s}

IndexOf(s, l) == CHOOSE k \in DOMAIN s : s[k] = l

Digits == <<"0", "1", "2", "3", "4", "5">>

Letters == <<"A", "B", "C", "D", "E", "F">>

(***************************************************************************)
(* Index sets (abstract methods, fixed by the concrete group).             *)
(***************************************************************************)
index_set(g) == [k \in 1..(g.n - 1) |-> Digits[k + 1]]

reflection_index_set(g) == [k \in 1..Len(ReflectionList(g.n)) |-> Digits[k]]

hyperplane_index_set(g) == [k \in 1..Len(ReflectionList(g.n)) |-> IF g.hyp = "custom" THEN Letters[k] ELSE Digits[k]]

Families == {"simple", "distinguished", "all"}

\* The name each family's index set has in an error message.
FamilyName(f) == CASE f = "simple" -> "simple" [] f = "distinguished" -> "hyperplane" [] f = "all" -> "reflection"

IndexSetOf(g, f) == CASE f = "simple" -> index_set(g) [] f = "distinguished" -> hyperplane_index_set(g) [] f = "all" -> reflection_index_set(g)

(***************************************************************************)
(* Outcomes of a call and the heap threaded through one call.              *)
(***************************************************************************)
NoFam == [k \in {} |-> <<>>]

Elem(v) == [kind |-> "elem", val |-> v, exc |-> "", label |-> "", family |-> "", id |-> 0, keys |-> <<>>, fam |-> NoFam, num |-> 0]

Raise(e, l, f) == [kind |-> "error", val |-> <<>>, exc |-> e, label |-> l, family |-> f, id |-> 0, keys |-> <<>>, fam |-> NoFam, num |-> 0]

FamObj(e) == [kind |-> "family", val |-> <<>>, exc |-> "", label |-> "", family |-> "", id |-> e.id, keys |-> e.keys, fam |-> e.map, num |-> 0]

Num(k) == [kind |-> "int", val |-> <<>>, exc |-> "", label |-> "", family |-> "", id |-> 0, keys |-> <<>>, fam |-> NoFam, num |-> k]

\* True / False.
Bool(b) == [kind |-> "bool", val |-> <<>>, exc |-> "", label |-> "", family |-> "", id |-> 0, keys |-> <<>>, fam |-> NoFam, num |-> IF b THEN 1 ELSE 0]

\* A Python list.
List(s) == [kind |-> "list", val |-> s, exc |-> "", label |-> "", family |-> "", id |-> 0, keys |-> <<>>, fam |-> NoFam, num |-> 0]

NoOut == [kind |-> "none", val |-> <<>>, exc |-> "", label |-> "", family |-> "", id |-> 0, keys |-> <<>>, fam |-> NoFam, num |-> 0]

R(o, h) == [out |-> o, h |-> h]

\* The value of v, computed once, handed to F.
Let(v, F(_)) == CHOOSE y \in {F(r) : r \in {v}} : TRUE

Mult(h) == [h EXCEPT !.mults = @ + 1]

RecursionError(h) == R(Raise("RuntimeError", "", ""), h)

\* An index that a lookup does not know: the "invalid index" condition.
InvalidIndex(l, f) == Raise("InvalidIndex", l, FamilyName(f))

(***************************************************************************)
(* The primitives the concrete group supplies.                             *)
(***************************************************************************)
ConcreteLookup(g, f, i) == IF i \in Range(IndexSetOf(g, f)) THEN Elem(ReflectionList(g.n)[IndexOf(IndexSetOf(g, f), i)]) ELSE InvalidIndex(i, f)

distinguished_reflection(g, h, i) == R(ConcreteLookup(g, "distinguished", i), h)

reflection(g, h, i) == R(ConcreteLookup(g, "all", i), h)

concrete_apply_simple_reflection(g, h, x, i, side) ==
    Let(ConcreteLookup(g, "simple", i), LAMBDA s :
        IF s.kind # "elem" THEN R(s, h)
        ELSE IF side = "right" THEN R(Elem(mul(x, s.val)), Mult(h))
        ELSE R(Elem(mul(s.val, x)), Mult(h)))

(***************************************************************************)
(* Families: Family(index set, lookup function), kept by cached_method.    *)
(***************************************************************************)
Lookup(g, h, f, i, d) == CASE f = "simple" -> simple_reflection(g, h, i, d) [] f = "distinguished" -> distinguished_reflection(g, h, i) [] f = "all" -> reflection(g, h, i)

\* The function is applied to the keys in order; the first exception ends it.
FamilyItems(g, h, f, keys, acc, d) ==
    IF Len(acc) = Len(keys)
    THEN R(FamObj([id |-> h.nextId, keys |-> keys, map |-> [l \in Range(keys) |-> acc[IndexOf(keys, l)]]]), [h EXCEPT !.nextId = @ + 1, !.builds[f] = @ + 1])
    ELSE Let(Lookup(g, h, f, keys[Len(acc) + 1], d), LAMBDA r :
             IF r.out.kind # "elem" THEN r
             ELSE FamilyItems(g, r.h, f, keys, Append(acc, r.out.val), d))

Family(g, h, f, keys, d) == FamilyItems(g, h, f, keys, <<>>, d)

\* family[i]
FamilyGetItem(fo, i, f) == IF i \in DOMAIN fo.fam THEN Elem(fo.fam[i]) ELSE InvalidIndex(i, f)

\* Mutant: the family of all reflections under the name of the simple ones.
simple_reflections_body_all(g, h, d) == Family(g, h, "all", reflection_index_set(g), d + 1)

simple_reflections_body(g, h, d) == Family(g, h, "simple", index_set(g), d + 1)

distinguished_reflections_body(g, h, d) == Family(g, h, "distinguished", hyperplane_index_set(g), d + 1)

reflections_body(g, h, d) == Family(g, h, "all", reflection_index_set(g), d + 1)

FamilyBody(g, h, f, d) == CASE f = "simple" -> simple_reflections_body(g, h, d) [] f = "distinguished" -> distinguished_reflections_body(g, h, d) [] f = "all" -> reflections_body(g, h, d)

\* The value is stored when the body returns; an exception stores nothing.
cached_method(g, h, f, d) ==
    IF h.cache[f].built
    THEN R(FamObj(h.cache[f]), [h EXCEPT !.hit = @ \cup {f}])
    ELSE Let(FamilyBody(g, h, f, d), LAMBDA r :
             IF r.out.kind # "family" THEN r
             ELSE R(r.out, [r.h EXCEPT !.cache[f] = [built |-> TRUE, id |-> r.out.id, keys |-> r.out.keys, map |-> r.out.fam]]))

\* Mutant: the method without its cached_method decorator.
simple_reflections_uncached(g, h, d) == simple_reflections_body(g, h, d)

simple_reflections(g, h, d) == cached_method(g, h, "simple", d)

distinguished_reflections(g, h, d) == cached_method(g, h, "distinguished", d)

reflections(g, h, d) == cached_method(g, h, "all", d)

nr_simple_reflections(g, h, d) ==
    Let(simple_reflections(g, h, d + 1), LAMBDA r :
        IF r.out.kind # "family" THEN r ELSE R(Num(Len(r.out.keys)), r.h))

(***************************************************************************)
(* ElementMethods: one simple reflection applied to x.                     *)
(***************************************************************************)
default_apply_simple_reflection_left(g, h, x, i, d) ==
    Let(simple_reflections(g, h, d + 1), LAMBDA s :
        IF s.out.kind # "family" THEN s
        ELSE Let(FamilyGetItem(s.out, i, "simple"), LAMBDA si :
             IF si.kind # "elem" THEN R(si, s.h) ELSE R(Elem(mul(si.val, x)), Mult(s.h))))

default_apply_simple_reflection_right(g, h, x, i, d) ==
    Let(simple_reflections(g, h, d + 1), LAMBDA s :
        IF s.out.kind # "family" THEN s
        ELSE Let(FamilyGetItem(s.out, i, "simple"), LAMBDA si :
             IF si.kind # "elem" THEN R(si, s.h) ELSE R(Elem(mul(x, si.val)), Mult(s.h))))

\* Method resolution: the element class's own method when it overrides it.
apply_simple_reflection_left(g, h, x, i, d) == IF g.override \in {"left", "both"} THEN concrete_apply_simple_reflection(g, h, x, i, "left") ELSE default_apply_simple_reflection_left(g, h, x, i, d)

apply_simple_reflection_right(g, h, x, i, d) == IF g.override \in {"right", "both"} THEN concrete_apply_simple_reflection(g, h, x, i, "right") ELSE default_apply_simple_reflection_right(g, h, x, i, d)

\* Mutant: the two sides exchanged.
apply_simple_reflection_swapped(g, h, x, i, side, d) == IF side = "right" THEN apply_simple_reflection_left(g, h, x, i, d + 1) ELSE apply_simple_reflection_right(g, h, x, i, d + 1)

apply_simple_reflection(g, h, x, i, side, d) == IF side = "right" THEN apply_simple_reflection_right(g, h, x, i, d + 1) ELSE apply_simple_reflection_left(g, h, x, i, d + 1)

default_simple_reflection(g, h, i, d) == apply_simple_reflection(g, h, one(g), i, "right", d + 1)

simple_reflection(g, h, i, d) ==
    IF d > RecursionLimit THEN RecursionError(h)
    ELSE IF g.parentSR THEN R(ConcreteLookup(g, "simple", i), h)
    ELSE default_simple_reflection(g, h, i, d)

\* G.simple_reflections()[i]
simple_reflections_getitem(g, h, i, d) ==
    Let(simple_reflections(g, h, d + 1), LAMBDA s :
        IF s.out.kind # "family" THEN s ELSE R(FamilyGetItem(s.out, i, "simple"), s.h))

\* Mutant: every label is applied to the element the call started from.
apply_simple_reflections_no_rebind(g, h, x, word, side, d) ==
    IF word = <<>> THEN R(Elem(x), h)
    ELSE Let(apply_simple_reflection(g, h, x, Head(word), side, d + 1), LAMBDA r :
             IF r.out.kind # "elem" \/ Tail(word) = <<>> THEN r
             ELSE apply_simple_reflections(g, r.h, x, Tail(word), side, d))

\* Mutant: a label that fails is skipped.
apply_simple_reflections_skip(g, h, x, word, side, d) ==
    IF word = <<>> THEN R(Elem(x), h)
    ELSE Let(apply_simple_reflection(g, h, x, Head(word), side, d + 1), LAMBDA r :
             IF r.out.kind # "elem" THEN apply_simple_reflections(g, r.h, x, Tail(word), side, d)
             ELSE apply_simple_reflections(g, r.h, r.out.val, Tail(word), side, d))

apply_simple_reflections(g, h, x, word, side, d) ==
    IF word = <<>> THEN R(Elem(x), h)
    ELSE Let(apply_simple_reflection(g, h, x, Head(word), side, d + 1), LAMBDA r :
             IF r.out.kind # "elem" THEN r
             ELSE apply_simple_reflections(g, r.h, r.out.val, Tail(word), side, d))

(***************************************************************************)
(* ElementMethods: distinguished and general reflections applied to x.     *)
(***************************************************************************)
apply_distinguished_reflection(g, h, x, i, side) ==
    IF i \notin Range(hyperplane_index_set(g)) THEN R(Raise("ValueError", i, "hyperplane"), h)
    ELSE IF side = "right"
    THEN Let(distinguished_reflection(g, h, i), LAMBDA t :
             IF t.out.kind # "elem" THEN t ELSE R(Elem(mul(x, t.out.val)), Mult(t.h)))
    ELSE Let(reflection(g, h, i), LAMBDA t :
             IF t.out.kind # "elem" THEN t ELSE R(Elem(mul(t.out.val, x)), Mult(t.h)))

apply_distinguished_reflections(g, h, x, word, side) ==
    IF word = <<>> THEN R(Elem(x), h)
    ELSE Let(apply_distinguished_reflection(g, h, x, Head(word), side), LAMBDA r :
             IF r.out.kind # "elem" THEN r
             ELSE apply_distinguished_reflections(g, r.h, r.out.val, Tail(word), side))

\* Mutant: the label is checked against the hyperplane index set.
apply_reflection_wrong_set(g, h, x, i, side) ==
    IF i \notin Range(hyperplane_index_set(g)) THEN R(Raise("ValueError", i, "reflection"), h)
    ELSE Let(reflection(g, h, i), LAMBDA t :
             IF t.out.kind # "elem" THEN t
             ELSE IF side = "right" THEN R(Elem(mul(x, t.out.val)), Mult(t.h))
             ELSE R(Elem(mul(t.out.val, x)), Mult(t.h)))

apply_reflection(g, h, x, i, side) ==
    IF i \notin Range(reflection_index_set(g)) THEN R(Raise("ValueError", i, "reflection"), h)
    ELSE Let(reflection(g, h, i), LAMBDA t :
             IF t.out.kind # "elem" THEN t
             ELSE IF side = "right" THEN R(Elem(mul(x, t.out.val)), Mult(t.h))
             ELSE R(Elem(mul(t.out.val, x)), Mult(t.h)))

\* Mutant: the whole word is checked before the first multiplication.
apply_reflections_prevalidate(g, h, x, word, side) ==
    IF \E k \in 1..Len(word) : word[k] \notin Range(reflection_index_set(g))
    THEN R(Raise("ValueError", word[CHOOSE k \in 1..Len(word) : word[k] \notin Range(reflection_index_set(g)) /\ \A j \in 1..(k - 1) : word[j] \in Range(reflection_index_set(g))], "reflection"), h)
    ELSE IF word = <<>> THEN R(Elem(x), h)
    ELSE Let(apply_reflection(g, h, x, Head(word), side), LAMBDA r :
             IF r.out.kind # "elem" THEN r
             ELSE apply_reflections(g, r.h, r.out.val, Tail(word), side))

\* Mutant: every label is applied to the element the call started from.
apply_reflections_no_rebind(g, h, x, word, side) ==
    IF word = <<>> THEN R(Elem(x), h)
    ELSE Let(apply_reflection(g, h, x, Head(word), side), LAMBDA r :
             IF r.out.kind # "elem" \/ Tail(word) = <<>> THEN r
             ELSE apply_reflections(g, r.h, x, Tail(word), side))

apply_reflections(g, h, x, word, side) ==
    IF word = <<>> THEN R(Elem(x), h)
    ELSE Let(apply_reflection(g, h, x, Head(word), side), LAMBDA r :
             IF r.out.kind # "elem" THEN r
             ELSE apply_reflections(g, r.h, r.out.val, Tail(word), side))

(***************************************************************************)
(* ParentMethods.from_word                                                 *)
(***************************************************************************)
\* Mutant: the word is folded from the left.
from_word_left(g, h, word, word_type) ==
    IF word_type = "simple" THEN apply_simple_reflections(g, h, one(g), word, "left", 1)
    ELSE IF word_type = "distinguished" THEN apply_distinguished_reflections(g, h, one(g), word, "left")
    ELSE IF word_type = "all" THEN apply_reflections(g, h, one(g), word, "left")
    ELSE R(Raise("UnboundLocalError", "", ""), h)

\* Mutant: any other word_type is taken for 'simple'.
from_word_fallback(g, h, word, word_type) ==
    IF word_type = "distinguished" THEN apply_distinguished_reflections(g, h, one(g), word, "right")
    ELSE IF word_type = "all" THEN apply_reflections(g, h, one(g), word, "right")
    ELSE apply_simple_reflections(g, h, one(g), word, "right", 1)

from_word(g, h, word, word_type) ==
    IF word_type = "simple" THEN apply_simple_reflections(g, h, one(g), word, "right", 1)
    ELSE IF word_type = "distinguished" THEN apply_distinguished_reflections(g, h, one(g), word, "right")
    ELSE IF word_type = "all" THEN apply_reflections(g, h, one(g), word, "right")
    ELSE R(Raise("UnboundLocalError", "", ""), h)

(***************************************************************************)
(* ParentMethods.an_element, some_elements                                 *)
(***************************************************************************)
\* self.prod(self.reflection(i) for i in labels): the factors are produced
\* and multiplied in order, starting from one().
prod(g, h, labels, acc) ==
    IF labels = <<>> THEN R(Elem(acc), h)
    ELSE Let(reflection(g, h, Head(labels)), LAMBDA t :
             IF t.out.kind # "elem" THEN t
             ELSE prod(g, Mult(t.h), Tail(labels), mul(acc, t.out.val)))

\* Mutant: the product of the simple reflections.
an_element_simple(g, h) == apply_simple_reflections(g, h, one(g), index_set(g), "right", 1)

an_element(g, h) == prod(g, h, index_set(g), one(g))

\* list(family): the values in the order of the keys.
FamilyList(fo) == [k \in 1..Len(fo.keys) |-> fo.fam[fo.keys[k]]]

\* Mutant: the list without the product of reflections at its end.
some_elements_short(g, h) ==
    Let(simple_reflections(g, h, 1), LAMBDA s :
        IF s.out.kind # "family" THEN s
        ELSE Let(an_element(g, s.h), LAMBDA a :
             IF a.out.kind # "elem" THEN a
             ELSE R(List(FamilyList(s.out) \o <<one(g), a.out.val>>), a.h)))

some_elements(g, h) ==
    Let(prod(g, h, index_set(g), one(g)), LAMBDA prod_ref :
        IF prod_ref.out.kind # "elem" THEN prod_ref
        ELSE Let(simple_reflections(g, prod_ref.h, 1), LAMBDA s :
             IF s.out.kind # "family" THEN s
             ELSE Let(an_element(g, s.h), LAMBDA a :
                  IF a.out.kind # "elem" THEN a
                  ELSE R(List(FamilyList(s.out) \o <<one(g), a.out.val, prod_ref.out.val>>), a.h))))

(***************************************************************************)
(* ParentMethods.is_irreducible, is_reducible                              *)
(***************************************************************************)
\* The optional abstract method: the concrete class's own list, else the
\* list [self] of the category Irreducible, else NotImplemented (calling it
\* is a TypeError).
irreducible_components(g, h) ==
    IF g.comps > 0 THEN R(List([k \in 1..g.comps |-> Letters[k]]), h)
    ELSE IF g.irreducible THEN R(List(<<"self">>), h)
    ELSE R(Raise("TypeError", "", ""), h)

nr_irreducible_components(g, h) ==
    Let(irreducible_components(g, h), LAMBDA c :
        IF c.out.kind # "list" THEN c ELSE R(Num(Len(c.out.val)), c.h))

\* Mutant: at least one component.
is_irreducible_some(g, h) ==
    Let(nr_irreducible_components(g, h), LAMBDA k :
        IF k.out.kind # "int" THEN k ELSE R(Bool(k.out.num >= 1), k.h))

is_irreducible(g, h) ==
    Let(nr_irreducible_components(g, h), LAMBDA k :
        IF k.out.kind # "int" THEN k ELSE R(Bool(k.out.num = 1), k.h))

is_reducible(g, h) ==
    Let(is_irreducible(g, h), LAMBDA b :
        IF b.out.kind # "bool" THEN b ELSE R(Bool(b.out.num # 1), b.h))

(***************************************************************************)
(* ElementMethods.reflection_length, is_reflection                         *)
(***************************************************************************)
\* x applied j times to k.
Power(x, j, k) == IF j = 0 THEN k ELSE x[Power(x, j - 1, k)]

Cycles(x) == {{Power(x, j, k) : j \in 0..Len(x)} : k \in DOMAIN x}

\* The optional abstract method, as a permutation group supplies it: the
\* degree minus the number of cycles.
reflection_length(g, h, x) == IF g.length THEN R(Num(Len(x) - Cardinality(Cycles(x))), h) ELSE R(Raise("TypeError", "", ""), h)

\* Mutant: at most one reflection.
is_reflection_at_most(g, h, x) ==
    Let(reflection_length(g, h, x), LAMBDA l :
        IF l.out.kind # "int" THEN l ELSE R(Bool(l.out.num <= 1), l.h))

is_reflection(g, h, x) ==
    Let(reflection_length(g, h, x), LAMBDA l :
        IF l.out.kind # "int" THEN l ELSE R(Bool(l.out.num = 1), l.h))

(***************************************************************************)
(* The state machine: one call per step, then the caller drops the result. *)
(***************************************************************************)
Overrides == {"none", "left", "right", "both"}

\* Group classes that supply simple_reflection, or whose elements supply
\* apply_simple_reflection_right for the default simple_reflection to use.
Configs == {c \in [n : {Degree}, hyp : {"default", "custom"}, parentSR : BOOLEAN, override : Overrides] : c.parentSR \/ c.override \in {"right", "both"}}

\* Group classes that inherit simple_reflection and whose elements override
\* exactly one of apply_simple_reflection_left / apply_simple_reflection_right.
DefaultConfigs == {c \in [n : {Degree}, hyp : {"default", "custom"}, parentSR : {FALSE}, override : Overrides] : c.override \in {"left", "right"}}

Sides == {"right", "left"}

WordTypes == {"simple", "distinguished", "all", "reduced"}

FamilyOfType(t) == IF t \in Families THEN t ELSE "simple"

\* A label of another family that is not one of this family.
Foreign(g, f) == CASE f = "simple" -> {"0"} [] f = "all" -> {"A"} [] f = "distinguished" -> IF g.hyp = "custom" THEN {"0"} ELSE {"A"}

TestLabels(g, f) == Range(IndexSetOf(g, f)) \cup Foreign(g, f) \cup {"zzz"}

Words(S) == UNION {[1..k -> S] : k \in 0..MaxLen}

Empty == [built |-> FALSE, id |-> 0, keys |-> <<>>, map |-> NoFam]

NoCall == [op |-> "none", x |-> <<>>, i |-> "", word |-> <<>>, side |-> "", wtype |-> ""]

Call(op, x, i, word, side, wtype) == [op |-> op, x |-> x, i |-> i, word |-> word, side |-> side, wtype |-> wtype]

H0 == [cache |-> cache, builds |-> builds, nextId |-> nextId, mults |-> 0, hit |-> {}]

Do(c, r) ==
    /\ pc' = "done"
    /\ call' = c
    /\ out' = r.out
    /\ mults' = r.h.mults
    /\ hit' = r.h.hit
    /\ cache' = r.h.cache
    /\ builds' = r.h.builds
    /\ nextId' = r.h.nextId
    /\ UNCHANGED <<G, trail>>

InitWith(C) ==
    /\ G \in C
    /\ cache = [f \in Families |-> Empty]
    /\ builds = [f \in Families |-> 0]
    /\ nextId = 1
    /\ pc = "idle"
    /\ call = NoCall
    /\ out = NoOut
    /\ mults = 0
    /\ hit = {}
    /\ trail = <<>>

Init == InitWith(Configs)

InitDefault == InitWith(DefaultConfigs)

FromWord ==
    /\ pc = "idle"
    /\ \E t \in WordTypes : \E w \in Words(TestLabels(G, FamilyOfType(t))) : \E r \in {from_word(G, H0, w, t)} : Do(Call("from_word", one(G), "", w, "right", t), r)

SimpleReflection ==
    /\ pc = "idle"
    /\ \E i \in TestLabels(G, "simple") : \E r \in {simple_reflection(G, H0, i, 1)} : Do(Call("simple_reflection", <<>>, i, <<>>, "", ""), r)

SimpleReflections ==
    /\ pc = "idle"
    /\ \E r \in {simple_reflections(G, H0, 1)} : Do(Call("simple_reflections", <<>>, "", <<>>, "", ""), r)

DistinguishedReflections ==
    /\ pc = "idle"
    /\ \E r \in {distinguished_reflections(G, H0, 1)} : Do(Call("distinguished_reflections", <<>>, "", <<>>, "", ""), r)

Reflections ==
    /\ pc = "idle"
    /\ \E r \in {reflections(G, H0, 1)} : Do(Call("reflections", <<>>, "", <<>>, "", ""), r)

SimpleReflectionsGetItem ==
    /\ pc = "idle"
    /\ \E i \in TestLabels(G, "simple") : \E r \in {simple_reflections_getitem(G, H0, i, 1)} : Do(Call("simple_reflections_getitem", <<>>, i, <<>>, "", ""), r)

NrSimpleReflections ==
    /\ pc = "idle"
    /\ \E r \in {nr_simple_reflections(G, H0, 1)} : Do(Call("nr_simple_reflections", <<>>, "", <<>>, "", ""), r)

ApplySimpleReflection ==
    /\ pc = "idle"
    /\ \E x \in Elements(G.n), i \in TestLabels(G, "simple"), s \in Sides : \E r \in {apply_simple_reflection(G, H0, x, i, s, 1)} : Do(Call("apply_simple_reflection", x, i, <<>>, s, ""), r)

ApplySimpleReflections ==
    /\ pc = "idle"
    /\ \E x \in Elements(G.n), w \in Words(TestLabels(G, "simple")), s \in Sides : \E r \in {apply_simple_reflections(G, H0, x, w, s, 1)} : Do(Call("apply_simple_reflections", x, "", w, s, ""), r)

ApplyDistinguishedReflection ==
    /\ pc = "idle"
    /\ \E x \in Elements(G.n), i \in TestLabels(G, "distinguished"), s \in Sides : \E r \in {apply_distinguished_reflection(G, H0, x, i, s)} : Do(Call("apply_distinguished_reflection", x, i, <<>>, s, ""), r)

ApplyDistinguishedReflections ==
    /\ pc = "idle"
    /\ \E x \in Elements(G.n), w \in Words(TestLabels(G, "distinguished")), s \in Sides : \E r \in {apply_distinguished_reflections(G, H0, x, w, s)} : Do(Call("apply_distinguished_reflections", x, "", w, s, ""), r)

ApplyReflection ==
    /\ pc = "idle"
    /\ \E x \in Elements(G.n), i \in TestLabels(G, "all"), s \in Sides : \E r \in {apply_reflection(G, H0, x, i, s)} : Do(Call("apply_reflection", x, i, <<>>, s, ""), r)

ApplyReflections ==
    /\ pc = "idle"
    /\ \E x \in Elements(G.n), w \in Words(TestLabels(G, "all")), s \in Sides : \E r \in {apply_reflections(G, H0, x, w, s)} : Do(Call("apply_reflections", x, "", w, s, ""), r)

\* The caller is done with the result; the group instance and its caches stay.
Return ==
    /\ pc = "done"
    /\ pc' = "idle"
    /\ call' = NoCall
    /\ out' = NoOut
    /\ mults' = 0
    /\ hit' = {}
    /\ trail' = <<>>
    /\ UNCHANGED <<G, cache, builds, nextId>>

(***************************************************************************)
(* A word applied one label at a time (the doctest of from_word).          *)
(***************************************************************************)
\* The same group classes on ColoredPermutations(1,4).
WalkConfigs == {[c EXCEPT !.n = WalkDegree] : c \in Configs}

InitWalk == InitWith(WalkConfigs)

WalkWords(g) == [1..WalkLen -> Range(index_set(g))]

\* The element the walk stands on.
Current == IF trail = <<>> THEN call.x ELSE trail[Len(trail)]

\* w is chosen; the walk starts from W.one().
StartWalk ==
    /\ pc = "idle"
    /\ \E w \in WalkWords(G) :
        /\ pc' = "walk"
        /\ call' = Call("walk", one(G), "", w, "right", "simple")
        /\ trail' = <<>>
        /\ UNCHANGED <<G, cache, builds, nextId, out, mults, hit>>

\* x = x.apply_simple_reflection(w[k], side='right') for the next label.
WalkStep ==
    /\ pc = "walk"
    /\ Len(trail) < Len(call.word)
    /\ \E r \in {apply_simple_reflection(G, H0, Current, call.word[Len(trail) + 1], call.side, 1)} :
        /\ pc' = IF r.out.kind = "elem" THEN "walk" ELSE "done"
        /\ trail' = IF r.out.kind = "elem" THEN Append(trail, r.out.val) ELSE trail
        /\ out' = r.out
        /\ mults' = r.h.mults
        /\ hit' = r.h.hit
        /\ cache' = r.h.cache
        /\ builds' = r.h.builds
        /\ nextId' = r.h.nextId
        /\ UNCHANGED <<G, call>>

\* After the last label: W.from_word(w) of the same word.
WalkFromWord ==
    /\ pc = "walk"
    /\ Len(trail) = Len(call.word)
    /\ \E r \in {from_word(G, H0, call.word, call.wtype)} :
        /\ pc' = "done"
        /\ call' = [call EXCEPT !.op = "walk_from_word"]
        /\ out' = r.out
        /\ mults' = r.h.mults
        /\ hit' = r.h.hit
        /\ cache' = r.h.cache
        /\ builds' = r.h.builds
        /\ nextId' = r.h.nextId
        /\ UNCHANGED <<G, trail>>

NextWalk ==
    \/ StartWalk
    \/ WalkStep
    \/ WalkFromWord
    \/ Return

(***************************************************************************)
(* Typical elements, irreducibility and reflection length.                 *)
(***************************************************************************)
\* Group classes of both degrees with what they say of their components
\* (the marker Irreducible, or a list of their own of comps components) and
\* whether their elements supply reflection_length.
ElementConfigs == {c \in [n : {Degree, WalkDegree}, hyp : {"default", "custom"}, parentSR : BOOLEAN, override : Overrides, irreducible : BOOLEAN, comps : 0..MaxComponents, length : BOOLEAN] : (c.parentSR \/ c.override \in {"right", "both"}) /\ (c.irreducible => c.comps = 0)}

InitElements == InitWith(ElementConfigs)

AnElement ==
    /\ pc = "idle"
    /\ \E r \in {an_element(G, H0)} : Do(Call("an_element", <<>>, "", <<>>, "", ""), r)

SomeElements ==
    /\ pc = "idle"
    /\ \E r \in {some_elements(G, H0)} : Do(Call("some_elements", <<>>, "", <<>>, "", ""), r)

IrreducibleComponents ==
    /\ pc = "idle"
    /\ \E r \in {irreducible_components(G, H0)} : Do(Call("irreducible_components", <<>>, "", <<>>, "", ""), r)

IsIrreducible ==
    /\ pc = "idle"
    /\ \E r \in {is_irreducible(G, H0)} : Do(Call("is_irreducible", <<>>, "", <<>>, "", ""), r)

IsReducible ==
    /\ pc = "idle"
    /\ \E r \in {is_reducible(G, H0)} : Do(Call("is_reducible", <<>>, "", <<>>, "", ""), r)

ReflectionLength ==
    /\ pc = "idle"
    /\ \E x \in Elements(G.n) : \E r \in {reflection_length(G, H0, x)} : Do(Call("reflection_length", x, "", <<>>, "", ""), r)

IsReflection ==
    /\ pc = "idle"
    /\ \E x \in Elements(G.n) : \E r \in {is_reflection(G, H0, x)} : Do(Call("is_reflection", x, "", <<>>, "", ""), r)

NextElements ==
    \/ AnElement
    \/ SomeElements
    \/ SimpleReflections
    \/ IrreducibleComponents
    \/ IsIrreducible
    \/ IsReducible
    \/ ReflectionLength
    \/ IsReflection
    \/ Return

Next ==
    \/ FromWord
    \/ SimpleReflection
    \/ SimpleReflections
    \/ SimpleReflectionsGetItem
    \/ NrSimpleReflections
    \/ ApplySimpleReflection
    \/ ApplySimpleReflections
    \/ ApplyDistinguishedReflection
    \/ ApplyDistinguishedReflections
    \/ ApplyReflection
    \/ ApplyReflections
    \/ Return

\* The three cached families, interleaved with from_word and the one-label
\* apply_* calls.
NextFamilies ==
    \/ SimpleReflections
    \/ DistinguishedReflections
    \/ Reflections
    \/ FromWord
    \/ ApplySimpleReflection
    \/ ApplyDistinguishedReflection
    \/ ApplyReflection
    \/ Return

Spec == Init /\ [][Next]_vars

SpecDefault == InitDefault /\ [][Next]_vars

SpecFamilies == Init /\ [][NextFamilies]_vars

SpecWalk == InitWalk /\ [][NextWalk]_vars

SpecElements == InitElements /\ [][NextElements]_vars

(***************************************************************************)
(* What the claims speak of: the generators t_i and ordered products.      *)
(***************************************************************************)
RECURSIVE ProdSeq(_, _)
\* t_1 * (t_2 * (... * t_k)), the empty product being the identity.
ProdSeq(g, ts) == IF ts = <<>> THEN one(g) ELSE mul(Head(ts), ProdSeq(g, Tail(ts)))

Reverse(ts) == [k \in 1..Len(ts) |-> ts[Len(ts) + 1 - k]]

Valid(g, f, i) == i \in Range(IndexSetOf(g, f))

ValidWord(g, f, w) == \A k \in 1..Len(w) : Valid(g, f, w[k])

\* The i-th reflection of family f.
Gen(g, f, i) == ReflectionList(g.n)[IndexOf(IndexSetOf(g, f), i)]

Gens(g, f, w) == [k \in 1..Len(w) |-> Gen(g, f, w[k])]

\* x * t_{i_1} * ... * t_{i_k}  resp.  t_{i_k} * ... * t_{i_1} * x
Applied(g, f, x, w, side) == IF side = "right" THEN mul(x, ProdSeq(g, Gens(g, f, w))) ELSE mul(ProdSeq(g, Reverse(Gens(g, f, w))), x)

\* The number of labels before the first one outside the index set.
ValidPrefix(g, f, w) == Cardinality({k \in 1..Len(w) : \A j \in 1..k : Valid(g, f, w[j])})

Done(op) == pc = "done" /\ call.op = op

\* C1: from_word(word, word_type) of a word of valid labels is
\* identity * t_{i_1} * ... * t_{i_k} in that order, t being the family that
\* word_type selects; the empty word gives the identity.
C1_FromWordProduct == (Done("from_word") /\ call.wtype \in Families /\ ValidWord(G, call.wtype, call.word)) => out = Elem(mul(one(G), ProdSeq(G, Gens(G, call.wtype, call.word))))

C1_Witness == Done("from_word") /\ call.wtype = "distinguished" /\ call.word = <<hyperplane_index_set(G)[1], hyperplane_index_set(G)[2]>> /\ out.kind = "elem" /\ out.val = <<3, 1, 2>>

\* C2: apply_simple_reflections and apply_reflections with side='left' return
\* t_{i_k} * ... * t_{i_1} * x, with side='right' x * t_{i_1} * ... * t_{i_k};
\* apply_simple_reflection(i, side) is x * s_i resp. s_i * x.
C2_SideOrder ==
    /\ (Done("apply_simple_reflections") /\ ValidWord(G, "simple", call.word)) => out = Elem(Applied(G, "simple", call.x, call.word, call.side))
    /\ (Done("apply_reflections") /\ ValidWord(G, "all", call.word)) => out = Elem(Applied(G, "all", call.x, call.word, call.side))
    /\ (Done("apply_simple_reflection") /\ Valid(G, "simple", call.i)) => out = Elem(IF call.side = "right" THEN mul(call.x, Gen(G, "simple", call.i)) ELSE mul(Gen(G, "simple", call.i), call.x))

C2_Witness == Done("apply_simple_reflections") /\ call.side = "left" /\ call.word = <<"1", "2">> /\ call.x = <<2, 3, 1>> /\ out.kind = "elem" /\ out.val = mul(<<1, 3, 2>>, mul(<<2, 1, 3>>, <<2, 3, 1>>)) /\ out.val # mul(<<2, 1, 3>>, mul(<<1, 3, 2>>, <<2, 3, 1>>))

\* C3: apply_distinguished_reflection(i, side) with i in hyperplane_index_set()
\* returns x * d_i for side='right' and d_i * x for side='left', and
\* apply_distinguished_reflections(word, side='left') returns
\* d_{i_k} * ... * d_{i_1} * x.
C3_DistinguishedBothSides ==
    /\ (Done("apply_distinguished_reflection") /\ Valid(G, "distinguished", call.i)) => out = Elem(IF call.side = "right" THEN mul(call.x, Gen(G, "distinguished", call.i)) ELSE mul(Gen(G, "distinguished", call.i), call.x))
    /\ (Done("apply_distinguished_reflections") /\ ValidWord(G, "distinguished", call.word)) => out = Elem(Applied(G, "distinguished", call.x, call.word, call.side))

\* C4: from_word(w1 + w2, word_type) = from_word(w1, word_type) *
\* from_word(w2, word_type) for all words w1, w2 of valid labels.
C4_Concatenation ==
    (Done("from_word") /\ call.wtype \in Families /\ ValidWord(G, call.wtype, call.word)) =>
        \A k \in 0..Len(call.word) :
            LET a == from_word(G, H0, SubSeq(call.word, 1, k), call.wtype).out
                b == from_word(G, H0, SubSeq(call.word, k + 1, Len(call.word)), call.wtype).out
            IN  a.kind = "elem" /\ b.kind = "elem" /\ out = Elem(mul(a.val, b.val))

C4_Witness == Done("from_word") /\ call.wtype = "all" /\ call.word = <<"0", "1">> /\ out.kind = "elem" /\ out.val = mul(from_word(G, H0, <<"0">>, "all").out.val, from_word(G, H0, <<"1">>, "all").out.val) /\ out.val # mul(from_word(G, H0, <<"1">>, "all").out.val, from_word(G, H0, <<"0">>, "all").out.val)

\* C5: apply_reflection(i, side) with i outside reflection_index_set() and
\* apply_distinguished_reflection(i, side) with i outside
\* hyperplane_index_set() raise ValueError naming the label i and the family
\* (reflection resp. hyperplane), and return no element.
C5_DomainError ==
    /\ (Done("apply_reflection") /\ ~Valid(G, "all", call.i)) => out = Raise("ValueError", call.i, "reflection")
    /\ (Done("apply_distinguished_reflection") /\ ~Valid(G, "distinguished", call.i)) => out = Raise("ValueError", call.i, "hyperplane")

C5_Witness == Done("apply_reflection") /\ call.i = "A" /\ call.side = "left" /\ G.hyp = "custom" /\ out.kind = "error" /\ out.exc = "ValueError" /\ out.label = "A"

\* The domain/index error of the error taxonomy: the ValueError the element
\* methods raise and the invalid-index condition of a lookup.
DomainError(o) == o.kind = "error" /\ o.exc \in {"ValueError", "InvalidIndex"}

FirstInvalid(g, f, w) == w[ValidPrefix(g, f, w) + 1]

WordCall(f) ==
    \/ (Done("from_word") /\ call.wtype = f)
    \/ (f = "all" /\ Done("apply_reflections"))
    \/ (f = "distinguished" /\ Done("apply_distinguished_reflections"))

C8_DefaultsTerminate ==
    (G.parentSR = FALSE /\ G.override \in {"left", "right"}) =>
        /\ ((Done("simple_reflection") \/ Done("apply_simple_reflection")) /\ Valid(G, "simple", call.i)) => out.kind = "elem"
        /\ Done("simple_reflections") => out.kind = "family"

\* C9: simple_reflections() maps exactly the labels of index_set(), each
\* once, label i to simple_reflection(i); nr_simple_reflections() is the
\* number of labels of index_set().
C9_SimpleFamily ==
    /\ Done("simple_reflections") =>
        /\ out.kind = "family"
        /\ out.keys = index_set(G)
        /\ DOMAIN out.fam = Range(index_set(G))
        /\ \A a, b \in 1..Len(out.keys) : out.keys[a] = out.keys[b] => a = b
        /\ \A i \in Range(index_set(G)) : Elem(out.fam[i]) = simple_reflection(G, H0, i, 1).out
    /\ Done("nr_simple_reflections") => out = Num(Cardinality(Range(index_set(G))))

C9_Witness == Done("simple_reflections") /\ out.kind = "family" /\ out.keys = <<"1", "2">> /\ out.fam["1"] = <<2, 1, 3>> /\ out.fam["2"] = <<1, 3, 2>> /\ ~G.parentSR /\ hit = {}

MethodOf(f) == CASE f = "simple" -> "simple_reflections" [] f = "distinguished" -> "distinguished_reflections" [] f = "all" -> "reflections"

\* C10: each of the three families is constructed at most once per group
\* instance: the first call builds it, every later call returns that same
\* object with the same mapping, and no call changes a family once built.
C10_BuiltOnce ==
    [][\A f \in Families :
        /\ cache[f].built => cache'[f] = cache[f]
        /\ builds'[f] <= 1
        /\ cache'[f].built <=> builds'[f] = 1
        /\ (pc' = "done" /\ call'.op = MethodOf(f)) =>
            /\ out'.kind = "family"
            /\ out'.id = cache'[f].id /\ out'.keys = cache'[f].keys /\ out'.fam = cache'[f].map
            /\ cache[f].built => (out'.id = cache[f].id /\ builds'[f] = builds[f])
            /\ ~cache[f].built => builds'[f] = 1]_vars

C10_Witness == Done("reflections") /\ "all" \in hit /\ out.kind = "family" /\ out.id = cache["all"].id /\ builds["all"] = 1 /\ cache["simple"].built

\* The doctest word [1,2,1,2,1,2].
DoctestWord == <<"1", "2", "1", "2", "1", "2">>

\* C11: in ColoredPermutations(1,4) the word [1,2,1,2,1,2], applied one
\* simple reflection at a time on the right from the identity, visits five
\* pairwise distinct non-identity elements after its prefixes of length
\* 1..5 and is back at the identity exactly after the sixth step;
\* from_word([1,2,1,2,1,2]) is the identity.
C11_DoctestWalk ==
    (pc \in {"walk", "done"} /\ call.word = DoctestWord /\ call.x = one(G) /\ G.n = WalkDegree) =>
        /\ \A k \in 1..Len(trail) : (trail[k] = one(G)) <=> (k = WalkLen)
        /\ \A j, k \in 1..Len(trail) : (j < k /\ k < WalkLen) => trail[j] # trail[k]
        /\ (pc = "walk" /\ Len(trail) > 0) => out = Elem(trail[Len(trail)])
        /\ (pc = "done") => (Len(trail) = WalkLen /\ out = Elem(one(G)))

C11_Witness == pc = "done" /\ call.op = "walk_from_word" /\ call.word = DoctestWord /\ Len(trail) = 6 /\ trail[1] = <<2, 1, 3, 4>> /\ trail[2] = <<3, 1, 2, 4>> /\ trail[5] = <<1, 3, 2, 4>> /\ trail[6] = <<1, 2, 3, 4>> /\ out.val = <<1, 2, 3, 4>>

C13_AnElementSimpleProduct == Done("an_element") => (out = Elem(ProdSeq(G, Gens(G, "simple", index_set(G)))) /\ out = from_word(G, H0, index_set(G), "simple").out)

Components(g) == IF g.comps > 0 THEN g.comps ELSE 1

\* C15: is_irreducible() is true exactly when the number of irreducible
\* components is 1 and is_reducible() is its negation; with the marker
\* Irreducible, irreducible_components() is [self], is_irreducible() is
\* true and is_reducible() is false.
C15_Irreducible ==
    /\ (Done("is_irreducible") /\ out.kind = "bool") => out = Bool(Components(G) = 1)
    /\ (Done("is_reducible") /\ out.kind = "bool") => out = Bool(Components(G) # 1)
    /\ (Done("is_reducible") \/ Done("is_irreducible")) => (out.kind = "bool" <=> irreducible_components(G, H0).out.kind = "list")
    /\ Done("is_reducible") => (out.kind = "bool" <=> is_irreducible(G, H0).out.kind = "bool")
    /\ G.irreducible =>
        /\ Done("irreducible_components") => out = List(<<"self">>)
        /\ Done("is_irreducible") => out = Bool(TRUE)
        /\ Done("is_reducible") => out = Bool(FALSE)

C15_Witness == Done("is_reducible") /\ G.irreducible /\ out = Bool(FALSE)

C15_WitnessReducible == Done("is_irreducible") /\ G.comps = 2 /\ out = Bool(FALSE)

RECURSIVE Products(_, _)
\* The elements that are a product of k reflections.
Products(g, k) == IF k = 0 THEN {one(g)} ELSE {mul(x, t) : x \in Products(g, k - 1), t \in Range(ReflectionList(g.n))}

\* The minimal number of reflections whose product is x.
MinLength(g, x) == CHOOSE k \in 0..g.n : x \in Products(g, k) /\ \A j \in 0..(k - 1) : x \notin Products(g, j)

\* C16: where reflection_length is defined, is_reflection(t) is true exactly
\* when reflection_length(t) = 1, the minimal number of reflections whose
\* product is t; the members of reflections() are reflections and the
\* identity is not.
C16_IsReflection ==
    /\ (Done("reflection_length") /\ G.length) => out = Num(MinLength(G, call.x))
    /\ (Done("is_reflection") /\ G.length) =>
        /\ out = Bool(MinLength(G, call.x) = 1)
        /\ out = Bool(reflection_length(G, H0, call.x).out.num = 1)
        /\ (\E i \in Range(reflection_index_set(G)) : reflection(G, H0, i).out = Elem(call.x)) => out = Bool(TRUE)
        /\ call.x = one(G) => out = Bool(FALSE)

C16_Witness == Done("is_reflection") /\ G.length /\ call.x = <<3, 2, 1, 4>> /\ out = Bool(TRUE)

C16_WitnessIdentity == Done("is_reflection") /\ G.length /\ call.x = <<1, 2, 3, 4>> /\ out = Bool(FALSE)

\* C17: from_word(word, word_type) with a word_type other than 'simple',
\* 'distinguished' and 'all' returns no element for any word, the empty one
\* included: it fails, multiplies nothing and looks no family up.
C17_UnknownWordType == (Done("from_word") /\ call.wtype \notin Families) => (out.kind = "error" /\ out.exc = "UnboundLocalError" /\ out.val = <<>> /\ mults = 0 /\ hit = {})

C17_Witness == Done("from_word") /\ call.wtype = "reduced" /\ call.word = <<>> /\ out.kind = "error" /\ mults = 0

C17_WitnessWord == Done("from_word") /\ call.wtype = "reduced" /\ call.word = <<"1", "2">> /\ out.kind = "error" /\ mults = 0

====
